---- MODULE Spec2Model ----
(***************************************************************************)
(* A model of app.py, the Streamlit flood-report form.                     *)
(*                                                                         *)
(* Streamlit runs the whole script top to bottom once per user             *)
(* interaction.  Each action below is one such script run, named after the *)
(* widget that triggered it.  The session state (st.session_state) and the *)
(* credential file (users.json) persist between runs; everything else is   *)
(* local to a run and is recorded in `view` / `post` as the outcome of the *)
(* most recent run.                                                        *)
(*                                                                         *)
(* Conventions:                                                            *)
(*   - Python None of a string-valued slot is the sentinel None;           *)
(*     None of a coordinate-valued slot is the empty tuple NoCoord.        *)
(*   - A coordinate is <<lat, lon>> in degrees, each an exact rational     *)
(*     <<num, den>> in lowest terms with den > 0.                          *)
(*   - Free text that is searched for keywords is a tuple of Unicode code  *)
(*     points.                                                            *)
(***************************************************************************)
EXTENDS Integers, Sequences, FiniteSets, TLC

VARIABLES
    usersFile,   \* users.json: [exists, data], data: username -> [password]
    ss,          \* st.session_state: a function from the keys present to values
    geo,         \* the client side of the st_javascript geolocation request
    view,        \* what the most recent script run saw and rendered
    post,        \* the send action of the most recent script run
    pc,          \* "idle", or "sending" while requests.post is in flight
    firstPwd,    \* history: username -> password of its first successful registration
    verified,    \* history: the credential verify_user last accepted in this login
    sv           \* the marker/severity block checked on its own (SevSpec)

vars == <<usersFile, ss, geo, view, post, pc, firstPwd, verified, sv>>

----------------------------------------------------------------------------
(* Bounds and input sets *)

NumPasswords == 2
MaxWords == 2

Usernames == {"asha", "ravi"}
PasswordPool == <<"pw1", "pw2", "pw3", "pw4", "pw5">>
Passwords == {PasswordPool[i] : i \in 1..NumPasswords}

None == "<None>"
NoCoord == << >>

\* Coordinates in degrees, as rationals.
BrowserFix == << <<30, 1>>, <<78, 1>> >>              \* 30.0 N, 78.0 E
DehradunFix == << <<60633, 2000>>, <<390161, 5000>> >>  \* 30.3165 N, 78.0322 E

----------------------------------------------------------------------------
(* Credential store *)

NoUsers == [u \in {} |-> [password |-> None]]

load_users(file) ==
    IF ~file.exists THEN NoUsers ELSE file.data

save_users(users) ==
    [exists |-> TRUE, data |-> users]

\* mutant: the duplicate check is missing, a second registration overwrites
register_user_overwrite(file, username, password) ==
    LET users == load_users(file)
        added == [u \in DOMAIN users \cup {username} |->
                     IF u = username THEN [password |-> password] ELSE users[u]]
    IN  [ok |-> TRUE, msg |-> "Registered", file |-> save_users(added)]

register_user(file, username, password) ==
    LET users == load_users(file)
        added == [u \in DOMAIN users \cup {username} |->
                     IF u = username THEN [password |-> password] ELSE users[u]]
    IN  IF username \in DOMAIN users
        THEN [ok |-> FALSE, msg |-> "Username already exists", file |-> file]
        ELSE [ok |-> TRUE, msg |-> "Registered", file |-> save_users(added)]

\* mutant: the password comparison is missing
verify_user_any_password(file, username, password) ==
    username \in DOMAIN load_users(file)

verify_user(file, username, password) ==
    LET users == load_users(file)
    IN  username \in DOMAIN users /\ users[username].password = password

----------------------------------------------------------------------------
(* EXIF GPS extraction *)

\* An uploaded or captured file: its name (code points) and its EXIF tags, a
\* function from the tag names present to values.  A DMS value is a list of
\* rationals <<num, den>>.

\* latitude 30 18' 59.94" N, longitude 78 1' 55.92" E
GpsTags ==
    [t \in {"GPS GPSLatitude", "GPS GPSLatitudeRef",
            "GPS GPSLongitude", "GPS GPSLongitudeRef"} |->
        CASE t = "GPS GPSLatitude" -> << <<30, 1>>, <<18, 1>>, <<5994, 100>> >>
          [] t = "GPS GPSLatitudeRef" -> "N"
          [] t = "GPS GPSLongitude" -> << <<78, 1>>, <<1, 1>>, <<5592, 100>> >>
          [] t = "GPS GPSLongitudeRef" -> "E"]

NoTags == [t \in {} |-> "N"]

\* Python None in a file slot
NoFile == [kind |-> "none", name |-> << >>, tags |-> NoTags]

CamShot ==
    [kind |-> "file", name |-> <<99, 97, 109, 46, 106, 112, 103>>,   \* "cam.jpg"
     tags |-> NoTags]

UpGps ==
    [kind |-> "file",
     name |-> <<70, 108, 111, 111, 100, 95, 49, 46, 106, 112, 103>>,   \* "Flood_1.jpg"
     tags |-> GpsTags]

\* Exact rational arithmetic for the float arithmetic of the code.
Abs(n) == IF n < 0 THEN -n ELSE n

RECURSIVE GCD(_, _)
GCD(a, b) == IF b = 0 THEN a ELSE GCD(b, a % b)

\* n / d in lowest terms with a positive denominator (d # 0)
Rat(n, d) ==
    LET g == GCD(Abs(n), Abs(d))
        s == IF d < 0 THEN -1 ELSE 1
    IN  <<(s * n) \div g, Abs(d) \div g>>

RatNeg(a) == <<-a[1], a[2]>>

\* [float(x.num) / float(x.den) for x in values]: a zero denominator raises
RatOk(dms) == \A i \in 1..Len(dms) : dms[i][2] # 0

\* None of dms_to_decimal
NoDec == << >>

\* degrees + minutes/60 + seconds/3600, negated for S and W; None when the
\* value has fewer than three parts (the except branch).
dms_to_decimal(dms, ref) ==
    IF Len(dms) < 3 \/ ~RatOk(dms) THEN NoDec
    ELSE LET dd == dms[1][2]
             md == dms[2][2]
             sd == dms[3][2]
             \* d/dd + m/(60 md) + s/(3600 sd) over the common denominator
             dec == Rat(dms[1][1] * (md * sd * 3600)
                          + dms[2][1] * (dd * sd * 60)
                          + dms[3][1] * (dd * md),
                        dd * md * sd * 3600)
         IN  IF ref \in {"S", "W"} THEN RatNeg(dec) ELSE dec

extract_gps_from_exif(file) ==
    LET tags == file.tags
        need == {"GPS GPSLatitude", "GPS GPSLatitudeRef",
                 "GPS GPSLongitude", "GPS GPSLongitudeRef"}
    IN  IF need \subseteq DOMAIN tags
        THEN IF RatOk(tags["GPS GPSLatitude"]) /\ RatOk(tags["GPS GPSLongitude"])
             THEN LET lat_dec == dms_to_decimal(tags["GPS GPSLatitude"],
                                                tags["GPS GPSLatitudeRef"])
                      lon_dec == dms_to_decimal(tags["GPS GPSLongitude"],
                                                tags["GPS GPSLongitudeRef"])
                  IN  IF lat_dec # NoDec /\ lon_dec # NoDec
                      THEN <<lat_dec, lon_dec>>
                      ELSE NoCoord
             ELSE NoCoord
        ELSE NoCoord

ExifFix == extract_gps_from_exif(UpGps)

----------------------------------------------------------------------------
(* Geocoding *)

\* What the Nominatim service does with one call (the environment's choice).
\* "timeout" stands for GeocoderTimedOut / GeocoderUnavailable, "error" for
\* any other exception, "none" for an answer without a match.
RevOutcomes == {"address", "none", "timeout", "error"}
FwdOutcomes == {"found", "none", "error"}
GeocodeFailures == {"timeout", "error"}

ReverseAddress(coords) ==
    CASE coords = BrowserFix -> "Rajpur Road, Dehradun"
      [] coords = ExifFix -> "Roorkee, Haridwar"
      [] OTHER -> "Uttarakhand, India"

GeocodeService(place_text) ==
    [latitude |-> DehradunFix[1], longitude |-> DehradunFix[2],
     address |-> "Dehradun, Uttarakhand, India"]

\* mutant: a failed lookup returns its error text instead of None
reverse_geocode_error_text(coords, outcome) ==
    CASE outcome = "address" -> ReverseAddress(coords)
      [] outcome = "none" -> None
      [] outcome = "timeout" -> "Service timed out"
      [] OTHER -> "Lookup failed"

reverse_geocode(coords, outcome) ==
    CASE outcome = "address" -> ReverseAddress(coords)
      [] outcome = "none" -> None
      [] outcome = "timeout" -> None
      [] OTHER -> None

----------------------------------------------------------------------------
(* Location resolution *)

\* camera capture is preferred over a manual upload
ActivePhoto(camera_image, uploaded_file) ==
    IF camera_image.kind # "none" THEN camera_image
    ELSE IF uploaded_file.kind # "none" THEN uploaded_file
    ELSE NoFile

Unresolved ==
    [coords |-> NoCoord, detected_place |-> None, exif_called |-> FALSE,
     rev |-> "notcalled", fwd |-> "notcalled"]

BrowserStep(loc, browser_coords, rev) ==
    IF browser_coords # NoCoord
    THEN [loc EXCEPT !.coords = browser_coords,
                     !.detected_place = reverse_geocode(browser_coords, rev),
                     !.rev = rev]
    ELSE loc

ExifStep(loc, photo_file, rev) ==
    IF loc.coords = NoCoord /\ photo_file.kind # "none"
    THEN LET gps == extract_gps_from_exif(photo_file)
         IN  IF gps # NoCoord
             THEN [loc EXCEPT !.coords = gps,
                              !.detected_place = reverse_geocode(gps, rev),
                              !.rev = rev,
                              !.exif_called = TRUE]
             ELSE [loc EXCEPT !.exif_called = TRUE]
    ELSE loc

\* mutant: a place name that does not geocode is kept as the label
ManualStep_keep_text(loc, place_text, fwd) ==
    IF loc.coords = NoCoord /\ place_text # ""
    THEN IF fwd = "found"
         THEN LET l == GeocodeService(place_text)
              IN  [loc EXCEPT !.coords = <<l.latitude, l.longitude>>,
                               !.detected_place = l.address,
                               !.fwd = fwd]
         ELSE [loc EXCEPT !.fwd = fwd, !.detected_place = place_text]
    ELSE loc

ManualStep(loc, place_text, fwd) ==
    IF loc.coords = NoCoord /\ place_text # ""
    THEN IF fwd = "found"
         THEN LET l == GeocodeService(place_text)
              IN  [loc EXCEPT !.coords = <<l.latitude, l.longitude>>,
                               !.detected_place = l.address,
                               !.fwd = fwd]
         ELSE [loc EXCEPT !.fwd = fwd]
    ELSE loc

\* mutant: the photo's EXIF position is tried before the browser's
ResolveLocation_exif_first(browser_coords, photo_file, place_text, rev, fwd) ==
    LET e == ExifStep(Unresolved, photo_file, rev)
        b == IF e.coords = NoCoord THEN BrowserStep(e, browser_coords, rev) ELSE e
    IN  ManualStep(b, place_text, fwd)

ResolveLocation(browser_coords, photo_file, place_text, rev, fwd) ==
    ManualStep(ExifStep(BrowserStep(Unresolved, browser_coords, rev),
                        photo_file, rev),
               place_text, fwd)

----------------------------------------------------------------------------
(* Session state *)

Has(s, k) == k \in DOMAIN s

Put(s, k, v) == [x \in DOMAIN s \cup {k} |-> IF x = k THEN v ELSE s[x]]

Drop(s, keys) == [x \in DOMAIN s \ keys |-> s[x]]

EmptySession == [x \in {} |-> None]

LoggedIn(s) == Has(s, "logged_in") /\ s["logged_in"]

\* if "logged_in" not in st.session_state: st.session_state.logged_in = False
EnsureLoginFlag(s) ==
    IF Has(s, "logged_in") THEN s ELSE Put(s, "logged_in", FALSE)

\* with st.sidebar: if not st.session_state.logged_in shows the Login and
\* Register forms, else the user's name and the Logout button.  The test is
\* made once, before any handler of the run has acted.
Sidebar(s) == IF LoggedIn(s) THEN "logout" ELSE "login"

\* The Login and Register buttons act in a run when the page holds them and
\* the run takes the forms' branch again.
LoginFormShown == view.sidebar = "login" /\ ~LoggedIn(ss)

\* The Logout button acts in a run when the page holds it and the run takes
\* its branch again.
LogoutShown == view.sidebar = "logout" /\ LoggedIn(ss)

\* The widgets below the login gate are on the page when the last run got
\* past the gate; a run started from one of them gets past it again.
MainPageShown == view.rendered /\ LoggedIn(ss)

\* mutant: the login handler does not look at verify_user's answer
LoginHandler_no_check(s, file, user, pwd) ==
    [ss |-> Put(Put(s, "logged_in", TRUE), "user", user),
     msg |-> "Logged in"]

LoginHandler(s, file, user, pwd) ==
    IF verify_user(file, user, pwd)
    THEN [ss |-> Put(Put(s, "logged_in", TRUE), "user", user),
          msg |-> "Logged in"]
    ELSE [ss |-> s, msg |-> "Invalid username or password"]

\* mutant: the cached browser position is not among the keys cleared
KeysToClear_no_browser ==
    {"logged_in", "user", "login_user", "login_pwd", "reg_user", "reg_pwd"}

KeysToClear ==
    {"logged_in", "user", "login_user", "login_pwd", "reg_user", "reg_pwd",
     "browser_coords", "browser_error"}

\* The Logout button.  "rerun": st.experimental_rerun() exists and starts the
\* script again, which sets logged_in to False and stops at the login gate.
\* "fallback": the call raises, the whole session state is cleared and the
\* script stops.
LogoutPaths == {"rerun", "fallback"}

LogoutHandler(s, path) ==
    LET cleared == Drop(s, KeysToClear)
    IN  IF path = "rerun" THEN EnsureLoginFlag(cleared) ELSE EmptySession

\* if "browser_coords" not in st.session_state: both slots start as None
BrowserInit(s) ==
    IF Has(s, "browser_coords") THEN s
    ELSE Put(Put(s, "browser_coords", NoCoord), "browser_error", None)

\* What st_javascript hands back in the run that called it: the component's
\* default 0 while the browser has not answered, the browser's answer, or
\* an exception.
GeoResults ==
    { [kind |-> "default", coords |-> NoCoord, error |-> None],
      [kind |-> "coords", coords |-> BrowserFix, error |-> None],
      [kind |-> "error", coords |-> NoCoord, error |-> "User denied Geolocation"],
      [kind |-> "raise", coords |-> NoCoord, error |-> "component failed"] }

\* What the browser answers once the user has decided.
GeoAnswers == {r \in GeoResults : r.kind \in {"coords", "error"}}

\* the body of: if st.button("Get browser location (allow in browser)")
GeoHandler(s, res) ==
    CASE res.kind = "coords" ->
            Put(Put(s, "browser_coords", res.coords), "browser_error", None)
      [] res.kind = "error" ->
            Put(Put(s, "browser_coords", NoCoord), "browser_error", res.error)
      [] res.kind = "default" ->
            Put(Put(s, "browser_coords", NoCoord), "browser_error", "unknown_error")
      [] OTHER ->
            Put(Put(s, "browser_coords", NoCoord), "browser_error", res.error)

\* The main page of one run, from the login gate to the map: the session
\* state it leaves and the location it resolved.
MainUI(s, geo_pressed, res, camera_image, uploaded_file, place_text, rev, fwd) ==
    LET s1 == BrowserInit(s)
        s2 == IF geo_pressed THEN GeoHandler(s1, res) ELSE s1
    IN  [ss |-> s2,
         loc |-> ResolveLocation(s2["browser_coords"],
                                 ActivePhoto(camera_image, uploaded_file),
                                 place_text, rev, fwd)]

----------------------------------------------------------------------------
(* Report submission *)

SuccessStatuses == {200, 201, 202}
StatusCodes == {200, 201, 202, 204, 404}

Responses ==
    {[kind |-> "status", code |-> c] : c \in StatusCodes}
        \cup {[kind |-> "exception", code |-> 0]}

NoResponse == [kind |-> "none", code |-> 0]

NoPost ==
    [sent |-> 0,
     payload |-> [user |-> None,
                  location |-> [latitude |-> << >>, longitude |-> << >>,
                                place |-> None]],
     resp |-> NoResponse, notice |-> "none", notice_code |-> 0]

\* payload["location"]: a missing number is the empty tuple
BuildPayload(s, loc) ==
    [user |-> s["user"],
     location |-> [latitude |-> IF loc.coords # NoCoord THEN <<loc.coords[1]>> ELSE << >>,
                   longitude |-> IF loc.coords # NoCoord THEN <<loc.coords[2]>> ELSE << >>,
                   place |-> loc.detected_place]]

\* mutant: a failed POST is sent once more
SendOutcome_retry(p, resp) ==
    CASE resp.kind = "status" /\ resp.code \in SuccessStatuses ->
            [p EXCEPT !.resp = resp, !.notice = "success"]
      [] resp.kind = "status" /\ resp.code \notin SuccessStatuses ->
            [p EXCEPT !.resp = resp, !.notice = "warning", !.notice_code = resp.code]
      [] OTHER ->
            [p EXCEPT !.resp = resp, !.notice = "error", !.sent = p.sent + 1]

\* mutant: every 2xx status counts as success
SendOutcome_any_2xx(p, resp) ==
    CASE resp.kind = "status" /\ resp.code \in 200..299 ->
            [p EXCEPT !.resp = resp, !.notice = "success"]
      [] resp.kind = "status" /\ resp.code \notin 200..299 ->
            [p EXCEPT !.resp = resp, !.notice = "warning", !.notice_code = resp.code]
      [] OTHER ->
            [p EXCEPT !.resp = resp, !.notice = "error"]

\* what the send action does with the answer of requests.post
SendOutcome(p, resp) ==
    CASE resp.kind = "status" /\ resp.code \in SuccessStatuses ->
            [p EXCEPT !.resp = resp, !.notice = "success"]
      [] resp.kind = "status" /\ resp.code \notin SuccessStatuses ->
            [p EXCEPT !.resp = resp, !.notice = "warning", !.notice_code = resp.code]
      [] OTHER ->
            [p EXCEPT !.resp = resp, !.notice = "error"]

----------------------------------------------------------------------------
(* Marker colour *)

Severities == {"Auto-detect", "Green (Low)", "Yellow (Medium)", "Red (High)"}

\* str.lower() of one character: the characters it becomes.  Tabulated for
\* Basic Latin, Latin-1, the Cyrillic capitals, and the two characters whose
\* lower case is not one character of the same block: U+0130 (i, U+0307)
\* and U+212A (k).  TextDomain is the set the table covers.
TextDomain == (0..255) \cup (1024..1119) \cup {304, 775, 8490}

LowerChar(c) ==
    CASE c \in 65..90 -> <<c + 32>>
      [] c \in (192..214) \cup (216..222) -> <<c + 32>>
      [] c \in 1024..1039 -> <<c + 80>>
      [] c \in 1040..1071 -> <<c + 32>>
      [] c = 304 -> <<105, 775>>
      [] c = 8490 -> <<107>>
      [] OTHER -> <<c>>

\* str.lower()
RECURSIVE Lower(_)
Lower(s) ==
    IF Len(s) = 0 THEN << >> ELSE LowerChar(Head(s)) \o Lower(Tail(s))

\* k in s, for strings
Contains(k, s) ==
    \E i \in 1..(Len(s) - Len(k) + 1) : SubSeq(s, i, i + Len(k) - 1) = k

KwFlood == <<102, 108, 111, 111, 100>>                        \* "flood"
KwWater == <<119, 97, 116, 101, 114>>                        \* "water"
KwFlooding == <<102, 108, 111, 111, 100, 105, 110, 103>>       \* "flooding"
KwDanger == <<100, 97, 110, 103, 101, 114>>                  \* "danger"
KwSubmerged == <<115, 117, 98, 109, 101, 114, 103, 101, 100>>  \* "submerged"

FileKeywords == {KwFlood, KwWater, KwFlooding}
CaptionKeywords == {KwFlood, KwWater, KwDanger, KwSubmerged}

\* mutant: the message is searched as typed, without lower()
AutoColor_case_sensitive(photo_file, message) ==
    LET fn == IF photo_file.kind # "none" THEN Lower(photo_file.name) ELSE << >>
        caption == message
    IN  IF (\E k \in FileKeywords : Contains(k, fn))
           \/ (\E k \in CaptionKeywords : Contains(k, caption))
        THEN "red"
        ELSE "orange"

\* the colour of the Auto-detect choice
AutoColor(photo_file, message) ==
    LET fn == IF photo_file.kind # "none" THEN Lower(photo_file.name) ELSE << >>
        caption == Lower(message)
    IN  IF (\E k \in FileKeywords : Contains(k, fn))
           \/ (\E k \in CaptionKeywords : Contains(k, caption))
        THEN "red"
        ELSE "orange"

\* The colour of the map marker; "none" when no map is drawn because no
\* coordinate was resolved.
MarkerColor(coords, severity, photo_file, message) ==
    IF coords = NoCoord THEN "none"
    ELSE CASE severity = "Auto-detect" -> AutoColor(photo_file, message)
           [] severity = "Green (Low)" -> "green"
           [] severity = "Yellow (Medium)" -> "orange"
           [] severity = "Red (High)" -> "red"
           [] OTHER -> "green"

Space == <<32>>
Vocabulary ==
    { <<70, 108, 111, 111, 100>>,
      <<83, 85, 66, 77, 69, 82, 71, 69, 68>>,   \* "SUBMERGED"
      <<119, 97, 116, 101, 114>>,   \* "water"
      <<68, 97, 110, 103, 101, 114>>,   \* "Danger"
      <<104, 101, 108, 112>> }   \* "help"

RECURSIVE Join(_)
Join(ws) ==
    IF Len(ws) = 0 THEN << >>
    ELSE IF Len(ws) = 1 THEN ws[1]
    ELSE ws[1] \o Space \o Join(Tail(ws))

\* every message of at most MaxWords words of the vocabulary
Messages == {Join(ws) : ws \in UNION {[1..n -> Vocabulary] : n \in 0..MaxWords}}

SvIdle ==
    [coords |-> NoCoord, severity |-> "Auto-detect", photo_file |-> NoFile,
     message |-> << >>, color |-> "unset", payload_severity |-> None,
     shown |-> FALSE]

SvInputs ==
    {[SvIdle EXCEPT !.coords = c, !.severity = s, !.photo_file = f, !.message = m] :
        c \in {NoCoord, BrowserFix}, s \in Severities,
        f \in {NoFile, CamShot, UpGps}, m \in Messages}

----------------------------------------------------------------------------
(* The script runs *)

Cameras == {NoFile, CamShot}
Uploads == {NoFile, UpGps}
PlaceTexts == {"", "Dehradun, Uttarakhand"}

NoAnswer == [kind |-> "none", coords |-> NoCoord, error |-> None]
NoGeo == [req |-> "none", ans |-> NoAnswer]
NoLogin == [user |-> None, pwd |-> None]

\* The EXIF position of each file the widgets can hold, computed once.
GpsOf ==
    [f \in Cameras \cup Uploads |->
        IF f.kind = "none" THEN NoCoord ELSE extract_gps_from_exif(f)]

\* The environment answers a geocoding call only when the call is made.
RevChoices(browser_coords, photo_file) ==
    IF browser_coords # NoCoord \/ GpsOf[photo_file] # NoCoord
    THEN RevOutcomes
    ELSE {"notcalled"}

FwdChoices(browser_coords, photo_file, place_text) ==
    IF browser_coords = NoCoord /\ GpsOf[photo_file] = NoCoord /\ place_text # ""
    THEN FwdOutcomes
    ELSE {"notcalled"}

\* A run that stops at the login gate (st.stop()) renders no main page.
StoppedView(event, sidebar, msg, form_user, form_pwd, cleared) ==
    [event |-> event, sidebar |-> sidebar, rendered |-> FALSE,
     camera_image |-> NoFile, uploaded_file |-> NoFile, place_text |-> "",
     loc |-> Unresolved, msg |-> msg,
     form_user |-> form_user, form_pwd |-> form_pwd,
     cleared_coords |-> cleared]

\* A browser request still waiting for its answer is dropped by the next run:
\* that run does not call st_javascript, so the component leaves the page.
Unmount(g) == IF g.req = "pending" THEN NoGeo ELSE g

\* A run that passes the login gate: the main page with whatever the widgets
\* hold (drawn from cams, ups, places) and the geocoder's answers.
RenderRun(event, sidebar, s, geo_pressed, res, cams, ups, places, msg, form_user, form_pwd) ==
    \E c \in cams, u \in ups, pt \in places :
        LET s1 == BrowserInit(s)
            bc == (IF geo_pressed THEN GeoHandler(s1, res) ELSE s1)["browser_coords"]
            ph == ActivePhoto(c, u)
        IN  \E rev \in RevChoices(bc, ph), fwd \in FwdChoices(bc, ph, pt) :
                LET m == MainUI(s, geo_pressed, res, c, u, pt, rev, fwd)
                IN  /\ ss' = m.ss
                    /\ view' = [event |-> event, sidebar |-> sidebar,
                                rendered |-> TRUE,
                                camera_image |-> c, uploaded_file |-> u,
                                place_text |-> pt, loc |-> m.loc, msg |-> msg,
                                form_user |-> form_user, form_pwd |-> form_pwd,
                                cleared_coords |-> NoCoord]

Init ==
    /\ usersFile = [exists |-> FALSE, data |-> NoUsers]
    /\ ss = EmptySession
    /\ geo = NoGeo
    /\ view = StoppedView("init", "none", "", "", "", NoCoord)
    /\ post = NoPost
    /\ pc = "idle"
    /\ firstPwd = [u \in {} |-> None]
    /\ verified = NoLogin
    /\ sv = SvIdle

\* The page is opened or refreshed while nobody is logged in.
Load ==
    /\ pc = "idle"
    /\ ~LoggedIn(ss)
    /\ ss' = EnsureLoginFlag(ss)
    /\ view' = StoppedView("load", Sidebar(ss), "", "", "", NoCoord)
    /\ post' = NoPost
    /\ geo' = Unmount(geo)
    /\ UNCHANGED <<usersFile, pc, firstPwd, verified, sv>>

\* The Register button.
Register ==
    /\ pc = "idle"
    /\ LoginFormShown
    /\ \E new_user \in Usernames, new_pwd \in Passwords :
          LET r == register_user(usersFile, new_user, new_pwd)
          IN  /\ usersFile' = r.file
              /\ view' = StoppedView("register", Sidebar(ss),
                                     IF r.ok THEN "Registered - you can now login"
                                     ELSE r.msg,
                                     new_user, new_pwd, NoCoord)
              /\ firstPwd' = IF r.ok /\ new_user \notin DOMAIN firstPwd
                             THEN [x \in DOMAIN firstPwd \cup {new_user} |->
                                      IF x = new_user THEN new_pwd ELSE firstPwd[x]]
                             ELSE firstPwd
    /\ ss' = EnsureLoginFlag(ss)
    /\ post' = NoPost
    /\ geo' = Unmount(geo)
    /\ UNCHANGED <<pc, verified, sv>>

\* The Login button; a successful login goes on to render the main page
\* with its widgets at their defaults.  The sidebar of that run still holds
\* the forms: the Logout button comes with the next run.
Login ==
    /\ pc = "idle"
    /\ LoginFormShown
    /\ \E user \in Usernames, pwd \in Passwords :
          LET h == LoginHandler(EnsureLoginFlag(ss), usersFile, user, pwd)
          IN  /\ IF LoggedIn(h.ss)
                 THEN RenderRun("login", Sidebar(ss), h.ss, FALSE, NoAnswer,
                                {NoFile}, {NoFile}, {""}, h.msg, user, pwd)
                 ELSE /\ ss' = h.ss
                      /\ view' = StoppedView("login", Sidebar(ss), h.msg,
                                              user, pwd, NoCoord)
              /\ verified' = IF verify_user(usersFile, user, pwd)
                             THEN [user |-> user, pwd |-> pwd]
                             ELSE verified
    /\ post' = NoPost
    /\ geo' = Unmount(geo)
    /\ UNCHANGED <<usersFile, pc, firstPwd, sv>>

\* The Logout button, on either path.  On "rerun" the page is the one the
\* second run draws, with the forms; on "fallback" the script stops in the
\* first run, whose sidebar held the Logout button.
Logout ==
    /\ pc = "idle"
    /\ LogoutShown
    /\ \E path \in LogoutPaths :
          /\ ss' = LogoutHandler(EnsureLoginFlag(ss), path)
          /\ view' = StoppedView("logout",
                                 IF path = "rerun" THEN Sidebar(ss') ELSE Sidebar(ss),
                                 "", "", "",
                                 IF Has(ss, "browser_coords") THEN ss["browser_coords"]
                                 ELSE NoCoord)
    /\ post' = NoPost
    /\ geo' = NoGeo
    /\ verified' = NoLogin
    /\ UNCHANGED <<usersFile, pc, firstPwd, sv>>

\* A widget of the main page changes (photo, place name, ...): no button.
Rerun ==
    /\ pc = "idle"
    /\ MainPageShown
    /\ RenderRun("rerun", Sidebar(ss), ss, FALSE, NoAnswer, Cameras, Uploads, PlaceTexts, "", "", "")
    /\ post' = NoPost
    /\ geo' = Unmount(geo)
    /\ UNCHANGED <<usersFile, pc, firstPwd, verified, sv>>

\* The "Get browser location" button: st_javascript is called in this run.
GeoClick ==
    /\ pc = "idle"
    /\ MainPageShown
    /\ \E res \in GeoResults :
          /\ RenderRun("geo", Sidebar(ss), ss, TRUE, res, Cameras, Uploads, PlaceTexts, "", "", "")
          /\ geo' = CASE res.kind = "default" -> [req |-> "pending", ans |-> NoAnswer]
                      [] res.kind = "raise" -> NoGeo
                      [] OTHER -> [req |-> "returned", ans |-> res]
    /\ post' = NoPost
    /\ UNCHANGED <<usersFile, pc, firstPwd, verified, sv>>

\* The browser answers a pending request: the component's new value makes
\* Streamlit run the script again, with no button pressed.
GeoAnswer ==
    /\ pc = "idle"
    /\ MainPageShown
    /\ geo.req = "pending"
    /\ \E ans \in GeoAnswers :
          /\ RenderRun("answer", Sidebar(ss), ss, FALSE, NoAnswer, Cameras, Uploads, PlaceTexts, "", "", "")
          /\ geo' = [req |-> "answered", ans |-> ans]
    /\ post' = NoPost
    /\ UNCHANGED <<usersFile, pc, firstPwd, verified, sv>>

\* The "Send to Government" button: the page is rendered, the payload is
\* built and requests.post is called.
SendClick ==
    /\ pc = "idle"
    /\ MainPageShown
    /\ RenderRun("send", Sidebar(ss), ss, FALSE, NoAnswer, Cameras, Uploads, PlaceTexts, "", "", "")
    /\ post' = [NoPost EXCEPT !.sent = 1, !.payload = BuildPayload(ss', view'.loc)]
    /\ pc' = "sending"
    /\ geo' = Unmount(geo)
    /\ UNCHANGED <<usersFile, firstPwd, verified, sv>>

\* requests.post returns a response or raises (at the latest on its timeout).
PostReturns ==
    /\ pc = "sending"
    /\ \E resp \in Responses : post' = SendOutcome(post, resp)
    /\ pc' = "idle"
    /\ UNCHANGED <<usersFile, ss, geo, view, firstPwd, verified, sv>>

Next ==
    \/ Load
    \/ Register
    \/ Login
    \/ Logout
    \/ Rerun
    \/ GeoClick
    \/ GeoAnswer
    \/ SendClick
    \/ PostReturns

Spec == Init /\ [][Next]_vars

\* requests.post is called with timeout=15, so it returns or raises.
FairSpec == Spec /\ WF_vars(PostReturns)

----------------------------------------------------------------------------
(* The marker block on its own: every input, one run *)

SevInit ==
    /\ usersFile = [exists |-> FALSE, data |-> NoUsers]
    /\ ss = EmptySession
    /\ geo = NoGeo
    /\ view = StoppedView("init", "none", "", "", "", NoCoord)
    /\ post = NoPost
    /\ pc = "idle"
    /\ firstPwd = [u \in {} |-> None]
    /\ verified = NoLogin
    /\ sv \in SvInputs

\* the map is shown (or not) and the payload's severity field is filled
ShowMap ==
    /\ ~sv.shown
    /\ sv' = [sv EXCEPT !.color = MarkerColor(sv.coords, sv.severity,
                                               sv.photo_file, sv.message),
                        !.payload_severity = sv.severity,
                        !.shown = TRUE]
    /\ UNCHANGED <<usersFile, ss, geo, view, post, pc, firstPwd, verified>>

SevNext == ShowMap

SevSpec == SevInit /\ [][SevNext]_vars

----------------------------------------------------------------------------
(* Properties *)

\* The EXIF position of the photo the last run worked with.
ActiveGps == GpsOf[ActivePhoto(view.camera_image, view.uploaded_file)]

\* C1: in every rendered run the location comes from the first source that
\* has one: the browser position of the session; else the EXIF position of
\* the active photo; else the geocoded place name.  A source below the one
\* that answered is not consulted.
C1_Precedence ==
    view.rendered =>
        LET bc == ss["browser_coords"]
        IN  /\ bc # NoCoord =>
                 /\ view.loc.coords = bc
                 /\ ~view.loc.exif_called
                 /\ view.loc.fwd = "notcalled"
            /\ (bc = NoCoord /\ ActiveGps # NoCoord) =>
                 /\ view.loc.coords = ActiveGps
                 /\ view.loc.fwd = "notcalled"
            /\ (bc = NoCoord /\ ActiveGps = NoCoord /\ view.place_text # "") =>
                 /\ view.loc.fwd # "notcalled"
                 /\ view.loc.fwd = "found" =>
                        view.loc.coords = <<GeocodeService(view.place_text).latitude,
                                            GeocodeService(view.place_text).longitude>>

\* C1 witness: a browser position, a photo with EXIF GPS and a typed place
\* name are all present, and the browser position is the result.
C1_Witness ==
    /\ view.rendered
    /\ ss["browser_coords"] = BrowserFix
    /\ ActiveGps = ExifFix
    /\ view.place_text # ""
    /\ view.loc.coords = BrowserFix

\* C2: once requests.post has come back, the answer decides the notice:
\* 200, 201 or 202 a success; any other status a warning carrying the
\* status; an exception an error.  One notice, never none.
C2_Classification ==
    (pc = "idle" /\ post.sent > 0) =>
        /\ post.resp.kind \in {"status", "exception"}
        /\ post.notice \in {"success", "warning", "error"}
        /\ (post.resp.kind = "status" /\ post.resp.code \in {200, 201, 202})
              <=> post.notice = "success"
        /\ (post.resp.kind = "status" /\ post.resp.code \notin {200, 201, 202})
              <=> (post.notice = "warning" /\ post.notice_code = post.resp.code)
        /\ post.resp.kind = "exception" <=> post.notice = "error"

\* C2 witness: a 404 answer was classified as a warning carrying 404.
C2_Witness ==
    /\ pc = "idle"
    /\ post.resp = [kind |-> "status", code |-> 404]
    /\ post.notice = "warning"
    /\ post.notice_code = 404

\* C3: a Register click for a username already in the file leaves the file
\* as it is and shows "Username already exists"; after every step the file
\* holds, for each username, the password of its first registration.
C3_DuplicateRegistration ==
    [][ /\ (view'.event = "register"
              /\ view'.form_user \in DOMAIN load_users(usersFile))
            => (usersFile' = usersFile /\ view'.msg = "Username already exists")
        /\ DOMAIN load_users(usersFile') = DOMAIN firstPwd'
        /\ \A u \in DOMAIN firstPwd' :
              load_users(usersFile')[u].password = firstPwd'[u]
      ]_vars

\* C3 witness: a registered username was registered again with another
\* password, was refused, and the file still holds the first password.
C3_Witness ==
    /\ view.event = "register"
    /\ view.msg = "Username already exists"
    /\ view.form_user \in DOMAIN load_users(usersFile)
    /\ load_users(usersFile)[view.form_user].password # view.form_pwd
    /\ load_users(usersFile)[view.form_user].password = firstPwd[view.form_user]

HasAny(keys, text) == \E k \in keys : Contains(k, text)

\* C4 as stated: with Auto-detect and a marker on the map, a message with
\* "flood" or "submerged" (any case) gives red, and a message without them
\* gives orange, the non-red colour of Auto-detect.
C4_Original ==
    (sv.shown /\ sv.severity = "Auto-detect" /\ sv.coords # NoCoord) =>
        IF HasAny({KwFlood, KwSubmerged}, Lower(sv.message))
        THEN sv.color = "red"
        ELSE sv.color = "orange"

\* C4 amended: with Auto-detect and a marker on the map, a message with
\* "flood" or "submerged" (any case) gives red; orange needs a message with
\* none of flood, water, danger, submerged and a photo file name with none
\* of flood, water.  Without a resolved coordinate there is no colour.
C4_AutoDetect ==
    (sv.shown /\ sv.severity = "Auto-detect") =>
        /\ sv.coords = NoCoord => sv.color = "none"
        /\ sv.coords # NoCoord =>
             /\ HasAny({KwFlood, KwSubmerged}, Lower(sv.message)) => sv.color = "red"
             /\ (/\ ~HasAny({KwFlood, KwWater, KwDanger, KwSubmerged}, Lower(sv.message))
                 /\ \/ sv.photo_file.kind = "none"
                    \/ ~HasAny({KwFlood, KwWater}, Lower(sv.photo_file.name)))
                  => sv.color = "orange"

\* C4 witness: the upper-case message SUBMERGED, no photo, Auto-detect, a
\* resolved coordinate: the marker is red.
C4_Witness ==
    /\ sv.shown
    /\ sv.severity = "Auto-detect"
    /\ sv.coords # NoCoord
    /\ sv.photo_file.kind = "none"
    /\ sv.message = <<83, 85, 66, 77, 69, 82, 71, 69, 68>>   \* "SUBMERGED"
    /\ sv.color = "red"

\* C5: in every rendered run and every payload built, a place label comes
\* only with a coordinate.
C5_PlaceNeedsCoords ==
    /\ view.rendered =>
          (view.loc.coords = NoCoord => view.loc.detected_place = None)
    /\ post.sent > 0 =>
          ((post.payload.location.latitude = << >>
              \/ post.payload.location.longitude = << >>)
           => post.payload.location.place = None)

\* C5 witness: a payload was sent after the typed place name failed to
\* geocode: no coordinate, no label.
C5_Witness ==
    /\ view.rendered
    /\ post.sent > 0
    /\ view.place_text # ""
    /\ view.loc.fwd \in {"none", "error"}
    /\ post.payload.location.latitude = << >>
    /\ post.payload.location.place = None

\* C6 as stated: a failed geocoding call, reverse or forward, leaves the
\* run with neither a coordinate nor a place label.
C6_Original ==
    (view.rendered /\ (view.loc.rev \in GeocodeFailures \/ view.loc.fwd = "error")) =>
        (view.loc.coords = NoCoord /\ view.loc.detected_place = None)

\* C6 amended: the run is rendered all the same; a failed forward call
\* leaves neither coordinate nor label; a failed reverse call leaves the
\* label absent and keeps the coordinate of the source that supplied it.
C6_GeocodeFailure ==
    view.rendered =>
        /\ view.loc.fwd = "error" =>
              (view.loc.coords = NoCoord /\ view.loc.detected_place = None)
        /\ view.loc.rev \in GeocodeFailures =>
              /\ view.loc.detected_place = None
              /\ view.loc.coords # NoCoord
              /\ view.loc.coords =
                    IF ss["browser_coords"] # NoCoord THEN ss["browser_coords"]
                    ELSE ActiveGps

\* C6 witness: the reverse lookup of the browser position timed out; the
\* coordinate is kept and the label is absent.
C6_Witness ==
    /\ view.rendered
    /\ view.loc.rev = "timeout"
    /\ view.loc.coords = BrowserFix
    /\ view.loc.detected_place = None

\* C7 as stated: once the browser has answered a "Get browser location"
\* request, in the run that issued it or in the run its answer starts, a
\* position answered is in the session and is the resolved location, and a
\* failure answered is the stored reason.
C7_AnswerStored ==
    (view.event \in {"geo", "answer"} /\ geo.req \in {"returned", "answered"}) =>
        IF geo.ans.kind = "coords"
        THEN ss["browser_coords"] = geo.ans.coords /\ view.loc.coords = geo.ans.coords
        ELSE ss["browser_error"] = geo.ans.error

C8_Inv ==
    /\ view.event = "send" => post.sent = 1
    /\ view.event # "send" => (post.sent = 0 /\ pc = "idle" /\ post.notice = "none")
    /\ pc = "sending" => (post.notice = "none" /\ post.resp = NoResponse)
    /\ (pc = "idle" /\ view.event = "send") =>
          (post.notice \in {"success", "warning", "error"} /\ post.resp # NoResponse)

\* C8: a Send click issues exactly one POST, the run waits in "sending" with
\* no notice, always comes to one of the three notices, and no notice sends
\* again; a run without the click sends nothing.
C8_OneShotSubmission ==
    /\ []C8_Inv
    /\ (pc = "sending") ~> (pc = "idle" /\ post.sent = 1
                              /\ post.notice \in {"success", "warning", "error"})

\* C8 witness: a POST failed with an exception, the error is shown and the
\* POST was sent once.
C8_Witness ==
    /\ view.event = "send"
    /\ pc = "idle"
    /\ post.resp.kind = "exception"
    /\ post.notice = "error"
    /\ post.sent = 1

\* C9: a POST is issued only from a logged-in session, whose login
\* verify_user accepted for a registered username with the password the
\* file holds, and the payload names that user.
C9_PostNeedsLogin ==
    /\ ~LoggedIn(ss) => post.sent = 0
    /\ post.sent > 0 =>
          /\ LoggedIn(ss)
          /\ verified # NoLogin
          /\ verified.user \in DOMAIN load_users(usersFile)
          /\ load_users(usersFile)[verified.user].password = verified.pwd
          /\ post.payload.user = verified.user
          /\ ss["user"] = verified.user

\* C9 witness: a report of the logged-in user asha was posted.
C9_Witness ==
    /\ post.sent = 1
    /\ LoggedIn(ss)
    /\ post.payload.user = "asha"
    /\ verified.user = "asha"

\* C10: while nobody is logged in the session holds neither a browser
\* position nor a browser error; a logout ends logged out on both paths; the
\* run of the next login finds no browser position; and a browser position
\* in a logged-in session was obtained since that login.
C10_LogoutResets ==
    /\ ~LoggedIn(ss) => (~Has(ss, "browser_coords") /\ ~Has(ss, "browser_error"))
    /\ view.event = "logout" => ~LoggedIn(ss)
    /\ (view.event = "login" /\ view.rendered) =>
          /\ ss["browser_coords"] = NoCoord
          /\ ss["browser_error"] = None
          /\ view.loc.coords = NoCoord
    /\ (LoggedIn(ss) /\ ss["browser_coords"] # NoCoord) =>
          (geo.req = "returned" /\ geo.ans.coords = ss["browser_coords"])

\* C10 witness: a logout on the rerun path removed a cached browser position.
C10_Witness ==
    /\ view.event = "logout"
    /\ view.cleared_coords = BrowserFix
    /\ Has(ss, "logged_in")
    /\ ~ss["logged_in"]
    /\ ~Has(ss, "browser_coords")

====
